---- MODULE Spec2Model ----
(***************************************************************************)
(* Quick Survey: the survey runner of script.js (class SurveyApp) as a     *)
(* state machine driven by the page's DOM events.                          *)
(*                                                                         *)
(* Strings the code inspects or builds (option values, typed text, CSS     *)
(* selectors, summary lines) are sequences of pieces, one piece per        *)
(* character; the empty sequence is the empty string ''.                   *)
(***************************************************************************)
EXTENDS Integers, Sequences, FiniteSets, TLC

\* ------------------------------------------------------------------ bounds
\* Longest survey definition drawn as the fetched document.
MaxQuestions == 2

\* Question ids are not positions: the question at position p has id p + IdBase.
IdBase == 10

\* ------------------------------------------------------------ JS values
\* A value held in this.answers: undefined, a string or a number.
Undefined == [kind |-> "undefined", s |-> <<>>, n |-> 0]
Str(x) == [kind |-> "string", s |-> x, n |-> 0]
Num(i) == [kind |-> "number", s |-> <<>>, n |-> i]

\* this.answers = {}
EmptyAnswers == <<>>

\* this.answers[id], undefined for a key never written.
Get(ans, id) == IF id \in DOMAIN ans THEN ans[id] ELSE Undefined

\* this.answers[id] = v
Put(ans, id, v) == (id :> v) @@ ans

\* !v of JavaScript: undefined, '' and 0 are falsy.
Falsy(v) ==
    \/ v.kind = "undefined"
    \/ v.kind = "string" /\ v.s = <<>>
    \/ v.kind = "number" /\ v.n = 0

Digits == <<"0", "1", "2", "3", "4", "5", "6", "7", "8", "9">>

\* String(n) for a non-negative integer, as template literals and dataset do it.
RECURSIVE NumToStr(_)
NumToStr(n) ==
    IF n < 10 THEN <<Digits[n + 1]>>
    ELSE NumToStr(n \div 10) \o <<Digits[(n % 10) + 1]>>

\* `${v}` of a value held in this.answers.
Interpolate(v) ==
    CASE v.kind = "string" -> v.s
      [] v.kind = "number" -> NumToStr(v.n)
      [] OTHER -> <<"undefined">>

\* ------------------------------------------------- the survey definition
QuestionTypes == {"multiple-choice", "rating", "text"}

\* The options of a multiple-choice question: a plain one and one that
\* contains a double quote (5").
PlainOption == <<"A">>
QuotedOption == <<"5", "\"">>
ChoiceOptions == <<PlainOption, QuotedOption>>

\* The scale of a rating question.
RatingScale == 2

\* What the user can leave in the textarea.
TextInputs == {<<>>, <<"x">>}

Title(p) == <<"T">> \o NumToStr(p)

Question(p, type, required) ==
    [id |-> p + IdBase, type |-> type, title |-> Title(p), required |-> required,
     options |-> IF type = "multiple-choice" THEN ChoiceOptions ELSE <<>>,
     scale |-> IF type = "rating" THEN RatingScale ELSE 0]

QuestionLists ==
    UNION {{[p \in 1..n |-> Question(p, shape[p][1], shape[p][2])] :
                shape \in [1..n -> QuestionTypes \X BOOLEAN]} : n \in 0..MaxQuestions}

\* this.surveyData: null before the load, else the parsed document, whose
\* questions member may be missing.
NullData == [isNull |-> TRUE, hasQuestions |-> FALSE, questions |-> <<>>]
Document(qs) == [isNull |-> FALSE, hasQuestions |-> TRUE, questions |-> qs]
NoQuestionsDocument == [isNull |-> FALSE, hasQuestions |-> FALSE, questions |-> <<>>]

\* A survey of three questions: a required multiple-choice question with
\* the options A and B, an optional rating on a scale of 5 and an optional
\* text question.
SampleQuestions ==
    << [Question(1, "multiple-choice", TRUE) EXCEPT !.options = <<PlainOption, <<"B">>>>],
       [Question(2, "rating", FALSE) EXCEPT !.scale = 5],
       Question(3, "text", FALSE) >>

SampleDocument == Document(SampleQuestions)

Documents ==
    {Document(qs) : qs \in QuestionLists} \cup {NoQuestionsDocument, SampleDocument}

\* What the fetch of survey-data.json can come to.
FetchOutcomes ==
    {[kind |-> "ok", doc |-> d] : d \in Documents}
        \cup {[kind |-> k, doc |-> NullData] : k \in {"http-error", "rejected", "bad-json"}}

\* ------------------------------------------------------------------ state
VARIABLES
    surveyData,            \* this.surveyData
    currentQuestionIndex,  \* this.currentQuestionIndex (0-based)
    answers,               \* this.answers
    fetchOutcome,          \* the response the pending fetch will deliver
    fetchCalls,            \* number of fetch() calls made so far
    initPc,                \* init(): "awaiting" the load, "ready" or "failed"
    listeners,             \* setupEventListeners() has run
    errorShown,            \* the error banner of showError is in the page
    screen,                \* the .screen element carrying class active
    rendered,              \* position of the question whose controls are in
                           \* #options-container, 0 when it was never filled
    selected,              \* positions of the controls carrying class selected
    textValue,             \* value of the textarea
    prevDisabled,          \* #prev-btn.disabled
    nextDisabled,          \* #next-btn.disabled
    nextLabel,             \* #next-btn.textContent
    summary,               \* content of #survey-summary
    gesture                \* the user's latest gesture on the page

\* The Categories service of server.js.
VARIABLES
    categories,            \* let categories
    nextCategoryId,        \* let nextCategoryId
    file,                  \* content of categories-data.json
    diskOk,                \* fs.writeFileSync on the file succeeds
    clock,                 \* the time new Date() returns
    response               \* the response sent to the latest request

\* The category management page of categories.js.
VARIABLES
    managerCategories,     \* this.categories of the CategoryManager
    editingId,             \* this.editingId, 0 standing for null
    nameField,             \* value of #category-name
    container,             \* ids of the categories listed in #categories-container
    calls,                 \* the fetch() calls that have not settled
    notification           \* type of the latest notification

pageVars == <<surveyData, currentQuestionIndex, answers, fetchOutcome, fetchCalls, initPc,
              listeners, errorShown, screen, rendered, selected, textValue, prevDisabled,
              nextDisabled, nextLabel, summary, gesture>>

serverVars == <<categories, nextCategoryId, file, diskOk, clock, response>>

managerVars == <<managerCategories, editingId, nameField, container, calls, notification>>

vars == <<pageVars, serverVars, managerVars>>

\* The object and the page it drives, as one record the methods transform.
App ==
    [surveyData |-> surveyData, currentQuestionIndex |-> currentQuestionIndex,
     answers |-> answers, fetchCalls |-> fetchCalls, listeners |-> listeners,
     errorShown |-> errorShown, screen |-> screen, rendered |-> rendered,
     selected |-> selected, textValue |-> textValue, prevDisabled |-> prevDisabled,
     nextDisabled |-> nextDisabled, nextLabel |-> nextLabel, summary |-> summary]

Becomes(t) ==
    /\ surveyData' = t.surveyData
    /\ currentQuestionIndex' = t.currentQuestionIndex
    /\ answers' = t.answers
    /\ fetchCalls' = t.fetchCalls
    /\ listeners' = t.listeners
    /\ errorShown' = t.errorShown
    /\ screen' = t.screen
    /\ rendered' = t.rendered
    /\ selected' = t.selected
    /\ textValue' = t.textValue
    /\ prevDisabled' = t.prevDisabled
    /\ nextDisabled' = t.nextDisabled
    /\ nextLabel' = t.nextLabel
    /\ summary' = t.summary

EmptySummary == [items |-> <<>>, noResponses |-> FALSE]

\* No request was handled yet.
NoResponse == [status |-> 0, error |-> "", message |-> "", data |-> <<>>]

MissingFile == [kind |-> "missing"]
CorruptFile == [kind |-> "corrupt"]

\* The service as the module leaves it when the file does not exist.
ServerIdle ==
    /\ categories = <<>>
    /\ nextCategoryId = 1
    /\ file = MissingFile
    /\ diskOk = TRUE
    /\ clock = 0
    /\ response = NoResponse

\* The page as constructed, awaiting one of the given fetch outcomes.
PageInit(outcomes) ==
    /\ surveyData = NullData
    /\ currentQuestionIndex = 0
    /\ answers = EmptyAnswers
    /\ fetchOutcome \in outcomes
    /\ fetchCalls = 1
    /\ initPc = "awaiting"
    /\ listeners = FALSE
    /\ errorShown = FALSE
    /\ screen = "welcome"
    /\ rendered = 0
    /\ selected = {}
    /\ textValue = <<>>
    /\ prevDisabled = FALSE
    /\ nextDisabled = FALSE
    /\ nextLabel = "Next"
    /\ summary = EmptySummary
    /\ gesture = [control |-> "none", fired |-> FALSE]

\* The largest number of fetch() calls of the category page in flight.
MaxCalls == 2

\* No fetch() call occupies the slot.
NoCall == [method |-> "none", id |-> 0, name |-> <<>>, stage |-> "settled",
           result |-> NoResponse]

\* The category management page is not open.
ManagerIdle ==
    /\ managerCategories = <<>>
    /\ editingId = 0
    /\ nameField = <<>>
    /\ container = <<>>
    /\ calls = [k \in 1..MaxCalls |-> NoCall]
    /\ notification = ""

Init == PageInit(FetchOutcomes) /\ ServerIdle /\ ManagerIdle

\* ------------------------------------------------------------ the methods
\* this.surveyData.questions[this.currentQuestionIndex] is an object.
HasCurrent(s) ==
    /\ s.surveyData.hasQuestions
    /\ s.currentQuestionIndex + 1 \in DOMAIN s.surveyData.questions

Current(s) == s.surveyData.questions[s.currentQuestionIndex + 1]

\* hideAllScreens() followed by classList.add('active') on one screen.
showWelcomeScreen(s) == [s EXCEPT !.screen = "welcome"]

showSurveyScreen(s) == [s EXCEPT !.screen = "survey"]

\* Number of controls the renderer creates for a question.
Controls(q) ==
    CASE q.type = "multiple-choice" -> Len(q.options)
      [] q.type = "rating" -> q.scale
      [] OTHER -> 0

\* dataset.value of the control at position k.
DataValue(q, k) == IF q.type = "rating" THEN NumToStr(k) ELSE q.options[k]

\* The selector text `[data-value="${v}"]`.
AttrSelector(v) == <<"[data-value=", "\"">> \o Interpolate(v) \o <<"\"", "]">>

\* Position of the string's closing quote in a selector whose string opens at
\* piece 2; 0 when the string never closes.
ClosingQuote(sel) ==
    LET after == {j \in 3..Len(sel) : sel[j] = "\""}
    IN IF after = {} THEN 0 ELSE CHOOSE j \in after : \A i \in after : j <= i

\* The selector parses: one attribute test whose quoted string is followed by
\* the closing bracket and nothing else. Otherwise querySelector throws.
SelectorParses(sel) ==
    /\ Len(sel) >= 4
    /\ sel[1] = "[data-value="
    /\ sel[2] = "\""
    /\ ClosingQuote(sel) # 0
    /\ ClosingQuote(sel) + 1 = Len(sel)
    /\ sel[Len(sel)] = "]"

SelectorValue(sel) == SubSeq(sel, 3, ClosingQuote(sel) - 1)

\* container.querySelector(sel): position of the first matching control, 0 for
\* null (and for the throw, which leaves the caller's remaining lines unrun).
QuerySelector(q, sel) ==
    LET hits == {k \in 1..Controls(q) : DataValue(q, k) = SelectorValue(sel)}
    IN IF ~SelectorParses(sel) \/ hits = {} THEN 0
       ELSE CHOOSE k \in hits : \A i \in hits : k <= i

\* v !== undefined && v !== ''
HasAnswer(v) == v.kind # "undefined" /\ ~(v.kind = "string" /\ v.s = <<>>)

\* The buttons as updateNavigationButtons leaves them, given the two disabled
\* flags it computes; the method throws after setting the first one when
\* there is no current question.
NavigationButtons(s, prevOff, nextOff) ==
    LET prev == [s EXCEPT !.prevDisabled = prevOff]
    IN IF ~HasCurrent(s) THEN prev
       ELSE [prev EXCEPT
                !.nextDisabled = nextOff,
                !.nextLabel =
                    IF s.currentQuestionIndex = Len(s.surveyData.questions) - 1
                    THEN "Complete Survey" ELSE "Next"]

\* Mutant: the Next button is never disabled.
updateNavigationButtons_neverDisables(s) ==
    NavigationButtons(s, s.currentQuestionIndex = 0, FALSE)

\* Mutant: an empty string counts as an answer.
updateNavigationButtons_emptyCounts(s) ==
    NavigationButtons(s, s.currentQuestionIndex = 0,
        Current(s).required /\ Get(s.answers, Current(s).id).kind = "undefined")

\* Mutant: the Previous button is gated like the Next button.
updateNavigationButtons_gatesPrevious(s) ==
    NavigationButtons(s,
        s.currentQuestionIndex = 0
            \/ (HasCurrent(s) /\ Current(s).required
                    /\ ~HasAnswer(Get(s.answers, Current(s).id))),
        Current(s).required /\ ~HasAnswer(Get(s.answers, Current(s).id)))

\* Mutant: every question is treated as required.
updateNavigationButtons_allRequired(s) ==
    NavigationButtons(s, s.currentQuestionIndex = 0,
        ~HasAnswer(Get(s.answers, Current(s).id)))

updateNavigationButtons(s) ==
    NavigationButtons(s, s.currentQuestionIndex = 0,
        Current(s).required /\ ~HasAnswer(Get(s.answers, Current(s).id)))

restorePreviousAnswer(s, q) ==
    LET previousAnswer == Get(s.answers, q.id)
        found == QuerySelector(q, AttrSelector(previousAnswer))
    IN IF Falsy(previousAnswer) THEN s
       ELSE CASE q.type \in {"multiple-choice", "rating"} ->
                    IF found # 0 THEN [s EXCEPT !.selected = s.selected \cup {found}]
                    ELSE s
              [] q.type = "text" -> [s EXCEPT !.textValue = Interpolate(previousAnswer)]
              [] OTHER -> s

\* A missing questions array or a missing question makes the method throw
\* before it touches the container.
displayQuestion(s) ==
    IF ~HasCurrent(s) THEN s
    ELSE LET fresh == [s EXCEPT !.rendered = s.currentQuestionIndex + 1,
                                !.selected = {},
                                !.textValue = <<>>]
         IN restorePreviousAnswer(updateNavigationButtons(fresh), Current(s))

\* Mutant: the survey screen is not shown.
startSurvey_noShow(s) ==
    displayQuestion([s EXCEPT !.currentQuestionIndex = 0, !.answers = EmptyAnswers])

startSurvey(s) ==
    displayQuestion(showSurveyScreen(
        [s EXCEPT !.currentQuestionIndex = 0, !.answers = EmptyAnswers]))

\* Mutant: going back discards the answers.
previousQuestion_clearsAnswers(s) ==
    IF s.currentQuestionIndex > 0
    THEN displayQuestion([s EXCEPT !.currentQuestionIndex = s.currentQuestionIndex - 1,
                                   !.answers = EmptyAnswers])
    ELSE s

previousQuestion(s) ==
    IF s.currentQuestionIndex > 0
    THEN displayQuestion([s EXCEPT !.currentQuestionIndex = s.currentQuestionIndex - 1])
    ELSE s

\* Mutant: a rating is shown as its bare value.
displayAnswer_bare(q, answer) == Interpolate(answer)

\* The text of a summary line: `${answer} out of ${question.scale}` for a
\* rating, the answer itself otherwise.
displayAnswer(q, answer) ==
    IF q.type = "rating"
    THEN Interpolate(answer) \o <<" out of ">> \o NumToStr(q.scale)
    ELSE Interpolate(answer)

\* Mutant: only an undefined answer is left out; '' is listed.
RECURSIVE SummaryItems_listsEmpty(_, _)
SummaryItems_listsEmpty(qs, ans) ==
    IF qs = <<>> THEN <<>>
    ELSE LET q == Head(qs)
             answer == Get(ans, q.id)
             line == [question |-> q.title, answer |-> displayAnswer(q, answer)]
         IN IF answer.kind # "undefined"
            THEN <<line>> \o SummaryItems_listsEmpty(Tail(qs), ans)
            ELSE SummaryItems_listsEmpty(Tail(qs), ans)

\* The summary lines: one per question whose answer is neither undefined nor ''.
RECURSIVE SummaryItems(_, _)
SummaryItems(qs, ans) ==
    IF qs = <<>> THEN <<>>
    ELSE LET q == Head(qs)
             answer == Get(ans, q.id)
             line == [question |-> q.title, answer |-> displayAnswer(q, answer)]
         IN IF answer.kind # "undefined" /\ ~(answer.kind = "string" /\ answer.s = <<>>)
            THEN <<line>> \o SummaryItems(Tail(qs), ans)
            ELSE SummaryItems(Tail(qs), ans)

\* Mutant: the message depends on whether anything was ever recorded.
displayResults_countsKeys(s) ==
    LET items == SummaryItems(s.surveyData.questions, s.answers)
    IN IF ~s.surveyData.hasQuestions THEN [s EXCEPT !.summary = EmptySummary]
       ELSE [s EXCEPT !.summary = [items |-> items,
                                   noResponses |-> DOMAIN s.answers = {}]]

displayResults(s) ==
    LET items == SummaryItems(s.surveyData.questions, s.answers)
    IN IF ~s.surveyData.hasQuestions THEN [s EXCEPT !.summary = EmptySummary]
       ELSE [s EXCEPT !.summary = [items |-> items, noResponses |-> items = <<>>]]

showResultsScreen(s) == displayResults([s EXCEPT !.screen = "results"])

completeSurvey(s) == showResultsScreen(s)

\* Mutant: the bound of the comparison is off by one (<= instead of <).
nextQuestion_offByOne(s) ==
    IF ~s.surveyData.hasQuestions THEN s
    ELSE IF s.currentQuestionIndex <= Len(s.surveyData.questions) - 1
         THEN displayQuestion([s EXCEPT !.currentQuestionIndex = s.currentQuestionIndex + 1])
         ELSE completeSurvey(s)

\* Mutant: the survey completes one question early.
nextQuestion_earlyComplete(s) ==
    IF ~s.surveyData.hasQuestions THEN s
    ELSE IF s.currentQuestionIndex < Len(s.surveyData.questions) - 2
         THEN displayQuestion([s EXCEPT !.currentQuestionIndex = s.currentQuestionIndex + 1])
         ELSE completeSurvey(s)

nextQuestion(s) ==
    IF ~s.surveyData.hasQuestions THEN s
    ELSE IF s.currentQuestionIndex < Len(s.surveyData.questions) - 1
         THEN displayQuestion([s EXCEPT !.currentQuestionIndex = s.currentQuestionIndex + 1])
         ELSE completeSurvey(s)

\* Mutant: the answers survive the restart.
restartSurvey_keepsAnswers(s) ==
    showWelcomeScreen([s EXCEPT !.currentQuestionIndex = 0])

restartSurvey(s) ==
    showWelcomeScreen([s EXCEPT !.currentQuestionIndex = 0, !.answers = EmptyAnswers])

\* Mutant: the click adds to the selection.
optionClick_keepsSelected(s, q, k) ==
    updateNavigationButtons(
        [s EXCEPT !.selected = s.selected \cup {k},
                  !.answers = Put(s.answers, q.id, Str(q.options[k]))])

\* Mutant: the buttons are not updated after the write.
optionClick_noUpdate(s, q, k) ==
    [s EXCEPT !.selected = {k}, !.answers = Put(s.answers, q.id, Str(q.options[k]))]

\* The click listener of the option at position k of a multiple-choice question.
optionClick(s, q, k) ==
    updateNavigationButtons(
        [s EXCEPT !.selected = {k}, !.answers = Put(s.answers, q.id, Str(q.options[k]))])

\* Mutant: the stored rating is zero-based.
ratingClick_zeroBased(s, q, i) ==
    updateNavigationButtons(
        [s EXCEPT !.selected = {i}, !.answers = Put(s.answers, q.id, Num(i - 1))])

\* The click listener of the rating control showing i.
ratingClick(s, q, i) ==
    updateNavigationButtons(
        [s EXCEPT !.selected = {i}, !.answers = Put(s.answers, q.id, Num(i))])

\* Mutant: the buttons are left as they were.
textInput_noUpdate(s, q, v) ==
    [s EXCEPT !.textValue = v, !.answers = Put(s.answers, q.id, Str(v))]

\* The input listener of the textarea, run once the textarea holds v.
textInput(s, q, v) ==
    updateNavigationButtons(
        [s EXCEPT !.textValue = v, !.answers = Put(s.answers, q.id, Str(v))])

\* init() resumed when the awaited loadSurveyData settles: with the parsed
\* document, or with the error a failed fetch, a non-ok status or an
\* unparseable body raises.
\* Mutant: the listeners are registered whether or not the load succeeded.
initResumed_listensAnyway(s, outcome) ==
    IF outcome.kind = "ok"
    THEN showWelcomeScreen([s EXCEPT !.surveyData = outcome.doc, !.listeners = TRUE])
    ELSE [s EXCEPT !.errorShown = TRUE, !.listeners = TRUE]

initResumed(s, outcome) ==
    IF outcome.kind = "ok"
    THEN showWelcomeScreen([s EXCEPT !.surveyData = outcome.doc, !.listeners = TRUE])
    ELSE [s EXCEPT !.errorShown = TRUE]

\* ------------------------------------------------------------- the page
\* The screen each control sits on.
ScreenOf(control) ==
    CASE control = "start-survey" -> "welcome"
      [] control \in {"prev-btn", "next-btn", "options-container"} -> "survey"
      [] control = "restart-survey" -> "results"

\* Mutant: the controls of every screen can be operated.
Operable_always(control) == TRUE

\* The user can operate the controls of the active screen only.
Operable(control) == screen = ScreenOf(control)

\* A position of the survey: Welcome, InProgress or Results once the
\* definition is loaded.
Phase ==
    CASE initPc = "awaiting" -> "Loading"
      [] initPc = "failed" -> "Error"
      [] screen = "welcome" -> "Welcome"
      [] screen = "survey" -> "InProgress"
      [] OTHER -> "Results"

\* ------------------------------------------------------------ the actions
LoadSettles ==
    /\ UNCHANGED <<serverVars, managerVars>>
    /\ initPc = "awaiting"
    /\ initPc' = IF fetchOutcome.kind = "ok" THEN "ready" ELSE "failed"
    /\ Becomes(initResumed(App, fetchOutcome))
    /\ UNCHANGED <<fetchOutcome, gesture>>

\* The timer of showError removes the banner.
ErrorTimeout ==
    /\ UNCHANGED <<serverVars, managerVars>>
    /\ errorShown
    /\ errorShown' = FALSE
    /\ UNCHANGED <<surveyData, currentQuestionIndex, answers, fetchOutcome, fetchCalls,
                   initPc, listeners, screen, rendered, selected, textValue, prevDisabled,
                   nextDisabled, nextLabel, summary, gesture>>

\* Mutant: a disabled button dispatches its click all the same.
Fires_whenDisabled(s, control) == s.listeners

\* Mutant: the listeners are there from the construction of the object.
Fires_unregistered(s, control) ==
    /\ control = "prev-btn" => ~s.prevDisabled
    /\ control = "next-btn" => ~s.nextDisabled

\* A click reaches its listener when the listener is registered and the
\* button is not disabled: a disabled button dispatches no click event.
Fires(s, control) ==
    /\ s.listeners
    /\ control = "prev-btn" => ~s.prevDisabled
    /\ control = "next-btn" => ~s.nextDisabled

\* The listeners setupEventListeners registers.
Listener(s, control) ==
    CASE control = "start-survey" -> startSurvey(s)
      [] control = "prev-btn" -> previousQuestion(s)
      [] control = "next-btn" -> nextQuestion(s)
      [] control = "restart-survey" -> restartSurvey(s)

\* What a click on a button does to the object and the page.
Click(s, control) == IF Fires(s, control) THEN Listener(s, control) ELSE s

Gesture(control) == [control |-> control, fired |-> Fires(App, control)]

\* What the user's try at a button comes to: a click when the button is on
\* the active screen, nothing otherwise.
Operate(control) == IF Operable(control) THEN Click(App, control) ELSE App

ClickStart ==
    /\ UNCHANGED <<serverVars, managerVars>>
    /\ Operable("start-survey")
    /\ gesture' = Gesture("start-survey")
    /\ Becomes(Operate("start-survey"))
    /\ UNCHANGED <<fetchOutcome, initPc>>

ClickPrevious ==
    /\ UNCHANGED <<serverVars, managerVars>>
    /\ Operable("prev-btn")
    /\ gesture' = Gesture("prev-btn")
    /\ Becomes(Operate("prev-btn"))
    /\ UNCHANGED <<fetchOutcome, initPc>>

ClickNext ==
    /\ UNCHANGED <<serverVars, managerVars>>
    /\ Operable("next-btn")
    /\ gesture' = Gesture("next-btn")
    /\ Becomes(Operate("next-btn"))
    /\ UNCHANGED <<fetchOutcome, initPc>>

ClickRestart ==
    /\ UNCHANGED <<serverVars, managerVars>>
    /\ Operable("restart-survey")
    /\ gesture' = Gesture("restart-survey")
    /\ Becomes(Operate("restart-survey"))
    /\ UNCHANGED <<fetchOutcome, initPc>>

\* The question whose controls the container holds.
RenderedQuestion == surveyData.questions[rendered]

ClickOption ==
    /\ UNCHANGED <<serverVars, managerVars>>
    /\ Operable("options-container")
    /\ rendered # 0
    /\ RenderedQuestion.type = "multiple-choice"
    /\ \E k \in 1..Len(RenderedQuestion.options) :
            Becomes(optionClick(App, RenderedQuestion, k))
    /\ gesture' = [control |-> "option", fired |-> TRUE]
    /\ UNCHANGED <<fetchOutcome, initPc>>

ClickRating ==
    /\ UNCHANGED <<serverVars, managerVars>>
    /\ Operable("options-container")
    /\ rendered # 0
    /\ RenderedQuestion.type = "rating"
    /\ \E i \in 1..RenderedQuestion.scale :
            Becomes(ratingClick(App, RenderedQuestion, i))
    /\ gesture' = [control |-> "rating", fired |-> TRUE]
    /\ UNCHANGED <<fetchOutcome, initPc>>

\* The user edits the textarea: its value changes and the input event fires.
TypeText ==
    /\ UNCHANGED <<serverVars, managerVars>>
    /\ Operable("options-container")
    /\ rendered # 0
    /\ RenderedQuestion.type = "text"
    /\ \E v \in TextInputs :
            /\ v # textValue
            /\ Becomes(textInput(App, RenderedQuestion, v))
    /\ gesture' = [control |-> "text-input", fired |-> TRUE]
    /\ UNCHANGED <<fetchOutcome, initPc>>

Next ==
    \/ LoadSettles
    \/ ErrorTimeout
    \/ ClickStart
    \/ ClickPrevious
    \/ ClickNext
    \/ ClickRestart
    \/ ClickOption
    \/ ClickRating
    \/ TypeText

Spec == Init /\ [][Next]_vars

\* ================================================= the Categories service
\* The largest value nextCategoryId takes, and the last tick of the clock.
MaxNextId == 3
MaxTime == 1

\* ----------------------------------------------------------- the strings
Whitespace == {" "}

\* String.prototype.toLowerCase on the letters of the model.
LowerCase(ch) ==
    CASE ch = "O" -> "o"
      [] ch = "P" -> "p"
      [] OTHER -> ch

toLowerCase(str) == [i \in 1..Len(str) |-> LowerCase(str[i])]

RECURSIVE trimStart(_)
trimStart(str) ==
    IF str # <<>> /\ Head(str) \in Whitespace THEN trimStart(Tail(str)) ELSE str

RECURSIVE trimEnd(_)
trimEnd(str) ==
    IF str # <<>> /\ str[Len(str)] \in Whitespace
    THEN trimEnd(SubSeq(str, 1, Len(str) - 1)) ELSE str

\* String.prototype.trim.
trim(str) == trimEnd(trimStart(str))

\* ---------------------------------------------------------- the requests
\* What a request body may carry as name, description and color.
NameInputs ==
    {Undefined, Num(5), Str(<<>>), Str(<<" ">>),
     Str(<<"O">>), Str(<<"o">>), Str(<<" ", "o">>), Str(<<"p">>)}
DescriptionInputs == {Undefined, Str(<<"d">>)}
ColorInputs == {Undefined, Str(<<"#10b981">>)}

\* The bodies sent: a name alone, a description alone, or all three
\* members.
Bodies ==
    {[name |-> n, description |-> Undefined, color |-> Undefined] : n \in NameInputs}
        \cup {[name |-> Undefined, description |-> d, color |-> Undefined] :
                    d \in DescriptionInputs}
        \cup {[name |-> Str(<<"p">>), description |-> Str(<<"d">>), color |-> c] :
                    c \in ColorInputs \ {Undefined}}

\* The ids a request path may name: those the service may have given.
PathIds == 1..(MaxNextId - 1)

\* ----------------------------------------------------------- the service
\* The module's variables as one record the handlers transform.
Service ==
    [categories |-> categories, nextCategoryId |-> nextCategoryId, file |-> file,
     diskOk |-> diskOk, clock |-> clock, response |-> response]

Serves(t) ==
    /\ categories' = t.categories
    /\ nextCategoryId' = t.nextCategoryId
    /\ file' = t.file
    /\ diskOk' = t.diskOk
    /\ clock' = t.clock
    /\ response' = t.response

\* The module's variables as declared, before loadCategories() runs.
Fresh(f, ok, time) ==
    [categories |-> <<>>, nextCategoryId |-> 1, file |-> f, diskOk |-> ok,
     clock |-> time, response |-> NoResponse]

\* Mutant: the counter is reset to 0 when reading or parsing throws.
loadCategories_resetsToZero(s) ==
    CASE s.file.kind = "missing" -> s
      [] s.file.kind = "corrupt" -> [s EXCEPT !.categories = <<>>, !.nextCategoryId = 0]
      [] OTHER -> [s EXCEPT !.categories = s.file.categories,
                            !.nextCategoryId = IF s.file.nextId = 0 THEN 1
                                               ELSE s.file.nextId]

\* loadCategories(): the variables keep their initial values when the file
\* does not exist and are reset when reading or parsing it throws.
loadCategories(s) ==
    CASE s.file.kind = "missing" -> s
      [] s.file.kind = "corrupt" -> [s EXCEPT !.categories = <<>>, !.nextCategoryId = 1]
      [] OTHER -> [s EXCEPT !.categories = s.file.categories,
                            !.nextCategoryId = IF s.file.nextId = 0 THEN 1
                                               ELSE s.file.nextId]

\* Mutant: a failed write puts the variables back to what the file holds.
saveCategories_rollsBack(s) ==
    IF s.diskOk
    THEN [s EXCEPT !.file = [kind |-> "data", categories |-> s.categories,
                             nextId |-> s.nextCategoryId]]
    ELSE CASE s.file.kind \in {"missing", "corrupt"} ->
                    [s EXCEPT !.categories = <<>>, !.nextCategoryId = 1]
           [] OTHER -> [s EXCEPT !.categories = s.file.categories,
                                 !.nextCategoryId = s.file.nextId]

\* saveCategories(): a failed write is logged and nothing else.
saveCategories(s) ==
    IF s.diskOk
    THEN [s EXCEPT !.file = [kind |-> "data", categories |-> s.categories,
                             nextId |-> s.nextCategoryId]]
    ELSE s

\* res.status(status).json({ error }) of a refused request.
Refuse(s, status, error) ==
    [s EXCEPT !.response = [status |-> status, error |-> error, message |-> "",
                            data |-> <<>>]]

\* res.status(status).json({ success: true, data, message })
Respond(s, status, message, data) ==
    [s EXCEPT !.response = [status |-> status, error |-> "", message |-> message,
                            data |-> data]]

\* new Date()
Now(s) == s.clock

\* The clock is one tick further after every request that read it, until
\* MaxTime, where it stays.
Tick(s) == IF s.clock < MaxTime THEN s.clock + 1 ELSE s.clock

\* Array.prototype.findIndex on the ids, 0 standing for -1.
IndexOfId(cats, id) ==
    IF \E i \in 1..Len(cats) : cats[i].id = id
    THEN CHOOSE i \in 1..Len(cats) :
            cats[i].id = id /\ \A j \in 1..(i - 1) : cats[j].id # id
    ELSE 0

\* Mutant: the last record is removed, whatever the index.
RemoveAt_last(cats, i) == SubSeq(cats, 1, Len(cats) - 1)

RemoveAt(cats, i) == SubSeq(cats, 1, i - 1) \o SubSeq(cats, i + 1, Len(cats))

\* GET /api/categories
getCategories(s) == Respond(s, 200, "", s.categories)

\* GET /api/categories/:id
getCategory(s, id) ==
    LET i == IndexOfId(s.categories, id)
    IN IF i = 0 THEN Refuse(s, 404, "Category not found")
       ELSE Respond(s, 200, "", <<s.categories[i]>>)

\* Mutant: whitespace counts as a name.
nameMissing_blankPasses(name) == Falsy(name) \/ name.kind # "string"

\* The validation of POST:
\* !name || typeof name !== 'string' || name.trim().length === 0
nameMissing(name) ==
    Falsy(name) \/ name.kind # "string" \/ Len(trim(name.s)) = 0

\* Mutant: the names are compared as they are written.
existingCategory_caseSensitive(cats, name) ==
    \E i \in 1..Len(cats) : cats[i].name = name

\* The duplicate check of POST: some category has the name, ignoring case.
existingCategory(cats, name) ==
    \E i \in 1..Len(cats) : toLowerCase(cats[i].name) = toLowerCase(name)

\* Mutant: the id is taken after the increment.
newCategory_preIncrement(s, body) ==
    [id |-> s.nextCategoryId + 1,
     name |-> trim(body.name.s),
     description |-> IF Falsy(body.description) THEN Str(<<>>) ELSE body.description,
     color |-> IF Falsy(body.color) THEN Str(<<"#667eea">>) ELSE body.color,
     createdAt |-> Now(s),
     updatedAt |-> Now(s)]

\* The record POST creates.
newCategory(s, body) ==
    [id |-> s.nextCategoryId,
     name |-> trim(body.name.s),
     description |-> IF Falsy(body.description) THEN Str(<<>>) ELSE body.description,
     color |-> IF Falsy(body.color) THEN Str(<<"#667eea">>) ELSE body.color,
     createdAt |-> Now(s),
     updatedAt |-> Now(s)]

\* POST /api/categories
postCategory(s, body) ==
    IF nameMissing(body.name)
    THEN Refuse(s, 400, "Category name is required")
    ELSE IF existingCategory(s.categories, body.name.s)
    THEN Refuse(s, 400, "Category with this name already exists")
    ELSE LET pushed == [s EXCEPT !.nextCategoryId = s.nextCategoryId + 1,
                                 !.categories = Append(s.categories, newCategory(s, body)),
                                 !.clock = Tick(s)]
         IN Respond(saveCategories(pushed), 201, "Category created successfully",
                    <<newCategory(s, body)>>)

\* The duplicate check of PUT: a category other than id has the name.
existingOther(cats, id, name) ==
    \E i \in 1..Len(cats) :
        cats[i].id # id /\ toLowerCase(cats[i].name) = toLowerCase(name)

\* Mutant: a description that is not provided is cleared.
updateCategory_clearsDescription(category, body, now) ==
    [category EXCEPT
        !.name = IF body.name.kind # "undefined" THEN trim(body.name.s) ELSE @,
        !.description = IF Falsy(body.description) THEN Str(<<>>) ELSE body.description,
        !.color = IF body.color.kind # "undefined" THEN body.color ELSE @,
        !.updatedAt = now]

\* The assignments of PUT to the category it found.
updateCategory(category, body, now) ==
    [category EXCEPT
        !.name = IF body.name.kind # "undefined" THEN trim(body.name.s) ELSE @,
        !.description = IF body.description.kind # "undefined" THEN body.description ELSE @,
        !.color = IF body.color.kind # "undefined" THEN body.color ELSE @,
        !.updatedAt = now]

\* Mutant: a name made of blanks is taken as a name.
nameRejected_blankPasses(name) == name.kind # "undefined" /\ name.kind # "string"

\* The validation of PUT, for a name that is provided:
\* typeof name !== 'string' || name.trim().length === 0
nameRejected(name) ==
    name.kind # "undefined" /\ (name.kind # "string" \/ Len(trim(name.s)) = 0)

\* Mutant: the name is validated before the category is looked up.
putCategory_validatesFirst(s, id, body) ==
    LET name == body.name
        categoryIndex == IndexOfId(s.categories, id)
    IN IF nameRejected(name)
       THEN Refuse(s, 400, "Category name must be a non-empty string")
       ELSE IF categoryIndex = 0 THEN Refuse(s, 404, "Category not found")
       ELSE IF name.kind # "undefined" /\ existingOther(s.categories, id, name.s)
       THEN Refuse(s, 400, "Category with this name already exists")
       ELSE LET category == updateCategory(s.categories[categoryIndex], body, Now(s))
                updated == [s EXCEPT !.categories[categoryIndex] = category,
                                     !.clock = Tick(s)]
            IN Respond(saveCategories(updated), 200, "Category updated successfully",
                       <<category>>)

\* PUT /api/categories/:id
putCategory(s, id, body) ==
    LET name == body.name
        categoryIndex == IndexOfId(s.categories, id)
    IN IF categoryIndex = 0 THEN Refuse(s, 404, "Category not found")
       ELSE IF nameRejected(name)
       THEN Refuse(s, 400, "Category name must be a non-empty string")
       ELSE IF name.kind # "undefined" /\ existingOther(s.categories, id, name.s)
       THEN Refuse(s, 400, "Category with this name already exists")
       ELSE LET category == updateCategory(s.categories[categoryIndex], body, Now(s))
                updated == [s EXCEPT !.categories[categoryIndex] = category,
                                     !.clock = Tick(s)]
            IN Respond(saveCategories(updated), 200, "Category updated successfully",
                       <<category>>)

\* DELETE /api/categories/:id
deleteCategory(s, id) ==
    LET categoryIndex == IndexOfId(s.categories, id)
    IN IF categoryIndex = 0 THEN Refuse(s, 404, "Category not found")
       ELSE LET deletedCategory == s.categories[categoryIndex]
                spliced == [s EXCEPT !.categories = RemoveAt(s.categories, categoryIndex)]
            IN Respond(saveCategories(spliced), 200, "Category deleted successfully",
                       <<deletedCategory>>)

\* ------------------------------------------------- the service's actions
\* The process starts with the file missing, unreadable or not JSON, on a
\* disk that takes writes or refuses them.
ServerInit ==
    /\ PageInit({[kind |-> "rejected", doc |-> NullData]})
    /\ ManagerIdle
    /\ file \in {MissingFile, CorruptFile}
    /\ diskOk \in BOOLEAN
    /\ clock = 0
    /\ response = NoResponse
    /\ categories = loadCategories(Fresh(file, diskOk, 0)).categories
    /\ nextCategoryId = loadCategories(Fresh(file, diskOk, 0)).nextCategoryId

\* The process is restarted: the module runs again and reads the file.
Restart ==
    /\ Serves(loadCategories(Fresh(file, diskOk, clock)))
    /\ UNCHANGED <<pageVars, managerVars>>

HandleGetAll ==
    /\ Serves(getCategories(Service))
    /\ UNCHANGED <<pageVars, managerVars>>

HandleGetOne ==
    /\ \E id \in PathIds :
            /\ Serves(getCategory(Service, id))
    /\ UNCHANGED <<pageVars, managerVars>>

HandlePost ==
    /\ \E body \in Bodies :
            /\ postCategory(Service, body).nextCategoryId <= MaxNextId
            /\ Serves(postCategory(Service, body))
    /\ UNCHANGED <<pageVars, managerVars>>

HandlePut ==
    /\ \E id \in PathIds : \E body \in Bodies :
            Serves(putCategory(Service, id, body))
    /\ UNCHANGED <<pageVars, managerVars>>

HandleDelete ==
    /\ \E id \in PathIds :
            /\ Serves(deleteCategory(Service, id))
    /\ UNCHANGED <<pageVars, managerVars>>

ServerNext ==
    \/ Restart
    \/ HandleGetAll
    \/ HandleGetOne
    \/ HandlePost
    \/ HandlePut
    \/ HandleDelete

ServerSpec == ServerInit /\ [][ServerNext]_vars

\* ======================================== the category management page
\* What the user types into #category-name.
FormNames == {<<>>, <<" ">>, <<"o">>, <<"p">>}

\* The CategoryManager and its page, as one record the methods transform.
Manager ==
    [categories |-> managerCategories, editingId |-> editingId, nameField |-> nameField,
     container |-> container, calls |-> calls, notification |-> notification]

Manages(t) ==
    /\ managerCategories' = t.categories
    /\ editingId' = t.editingId
    /\ nameField' = t.nameField
    /\ container' = t.container
    /\ calls' = t.calls
    /\ notification' = t.notification

HasFree(c) == \E k \in 1..MaxCalls : c.calls[k] = NoCall

FreeSlot(c) == CHOOSE k \in 1..MaxCalls :
                    c.calls[k] = NoCall /\ \A j \in 1..(k - 1) : c.calls[j] # NoCall

\* fetch(url, { method, body }): the request leaves for the server.
fetch(c, method, id, name) ==
    [c EXCEPT !.calls[FreeSlot(c)] =
        [method |-> method, id |-> id, name |-> name, stage |-> "request",
         result |-> NoResponse]]

\* The promise of the call in slot k has settled.
Settled(c, k) == [c EXCEPT !.calls[k] = NoCall]

\* The body handleSubmit sends: the description field is left empty and
\* the colour field holds the default colour.
CategoryData(name) ==
    [name |-> Str(name), description |-> Str(<<>>), color |-> Str(<<"#667eea">>)]

\* result.success of a parsed response.
Success(result) == result.status \in {200, 201}

\* The outcome of a fetch that rejects.
Rejected == [status |-> -1, error |-> "rejected", message |-> "", data |-> <<>>]

\* showNotification(message, type): the page shows a notification of the type.
CM_showNotification(c, type) == [c EXCEPT !.notification = type]

CM_renderEmptyState(c) == [c EXCEPT !.container = <<>>]

CM_renderCategories(c) ==
    [c EXCEPT !.container = [i \in 1..Len(c.categories) |-> c.categories[i].id]]

CM_resetForm(c) == [c EXCEPT !.editingId = 0, !.nameField = <<>>]

\* loadCategories() up to its await.
CM_loadCategories(c) == fetch(c, "GET", 0, <<>>)

\* loadCategories() resumed with the outcome of its fetch.
CM_loadCategoriesResumed(c, result) ==
    IF result = Rejected
    THEN CM_renderEmptyState(
            CM_showNotification(c, "error"))
    ELSE IF Success(result)
    THEN CM_renderCategories([c EXCEPT !.categories = result.data])
    ELSE CM_showNotification(c, "error")

\* createCategory() resumed with the outcome of its POST.
CM_createCategoryResumed(c, result) ==
    IF result = Rejected THEN CM_showNotification(c, "error")
    ELSE IF Success(result)
    THEN CM_loadCategories(CM_resetForm(CM_showNotification(c, "success")))
    ELSE CM_showNotification(c, "error")

\* updateCategory() resumed with the outcome of its PUT.
CM_updateCategoryResumed(c, result) ==
    IF result = Rejected THEN CM_showNotification(c, "error")
    ELSE IF Success(result)
    THEN CM_loadCategories(CM_resetForm(CM_showNotification(c, "success")))
    ELSE CM_showNotification(c, "error")

\* deleteCategory() resumed with the outcome of its DELETE.
CM_deleteCategoryResumed(c, result) ==
    IF result = Rejected THEN CM_showNotification(c, "error")
    ELSE IF Success(result)
    THEN CM_loadCategories(CM_showNotification(c, "success"))
    ELSE CM_showNotification(c, "error")

\* Mutant: the submit always creates.
CM_handleSubmit_alwaysCreates(c) ==
    LET name == trim(c.nameField)
    IN IF name = <<>> THEN CM_showNotification(c, "error")
       ELSE fetch(c, "POST", 0, name)

\* handleSubmit() up to the await of its request.
CM_handleSubmit(c) ==
    LET name == trim(c.nameField)
    IN IF name = <<>> THEN CM_showNotification(c, "error")
       ELSE IF c.editingId # 0 THEN fetch(c, "PUT", c.editingId, name)
       ELSE fetch(c, "POST", 0, name)

\* this.categories.find(c => c.id === id), 0 standing for undefined.
Find(c, id) == IndexOfId(c.categories, id)

CM_editCategory(c, id) ==
    IF Find(c, id) = 0 THEN c
    ELSE [c EXCEPT !.editingId = id, !.nameField = c.categories[Find(c, id)].name]

\* deleteCategory() up to the await of its request; confirmed is the
\* user's answer to confirm().
CM_deleteCategory(c, id, confirmed) ==
    IF Find(c, id) = 0 THEN c
    ELSE IF ~confirmed THEN c
    ELSE fetch(c, "DELETE", id, <<>>)

\* The async function that awaits the call resumes with the outcome.
Resumed(c, k, result) ==
    LET call == c.calls[k]
        settled == Settled(c, k)
    IN CASE call.method = "GET" -> CM_loadCategoriesResumed(settled, result)
         [] call.method = "POST" -> CM_createCategoryResumed(settled, result)
         [] call.method = "PUT" -> CM_updateCategoryResumed(settled, result)
         [] call.method = "DELETE" -> CM_deleteCategoryResumed(settled, result)

\* The route the request of a call is served by.
Served(s, call) ==
    CASE call.method = "GET" -> getCategories(s)
      [] call.method = "POST" -> postCategory(s, CategoryData(call.name))
      [] call.method = "PUT" -> putCategory(s, call.id, CategoryData(call.name))
      [] call.method = "DELETE" -> deleteCategory(s, call.id)

\* What the function awaiting the call reads of the response: success,
\* and the data of a list.
Received(call, sent) ==
    IF call.method = "GET" THEN [status |-> sent.status, error |-> "", message |-> "",
                                 data |-> sent.data]
    ELSE [status |-> sent.status, error |-> "", message |-> "", data |-> <<>>]

\* ------------------------------------------- the category page's actions
\* DOMContentLoaded: the manager is constructed and init() awaits the
\* first load, against a service that starts without a file.
ManagerInit ==
    /\ PageInit({[kind |-> "rejected", doc |-> NullData]})
    /\ categories = <<>>
    /\ nextCategoryId = 1
    /\ file = MissingFile
    /\ diskOk = TRUE
    /\ clock = MaxTime
    /\ response = NoResponse
    /\ managerCategories = <<>>
    /\ editingId = 0
    /\ nameField = <<>>
    /\ container = <<>>
    /\ notification = ""
    /\ calls = CM_loadCategories([calls |-> [k \in 1..MaxCalls |-> NoCall]]).calls

\* The user leaves the name field as it is or types a name into it, and
\* submits the form.
Submit ==
    /\ \E v \in FormNames \cup {nameField} :
            LET typed == [Manager EXCEPT !.nameField = v]
            IN /\ trim(v) # <<>> => HasFree(Manager)
               /\ Manages(CM_handleSubmit(typed))
    /\ UNCHANGED <<pageVars, serverVars>>

\* The cancel button is displayed while the form edits a category.
Cancel ==
    /\ editingId # 0
    /\ Manages(CM_resetForm(Manager))
    /\ UNCHANGED <<pageVars, serverVars>>

\* A click on the Edit button of a listed category.
EditClick ==
    /\ \E i \in 1..Len(container) : Manages(CM_editCategory(Manager, container[i]))
    /\ UNCHANGED <<pageVars, serverVars>>

\* A click on the Delete button of a listed category, and the answer to
\* the confirmation.
DeleteClick ==
    /\ \E i \in 1..Len(container) : \E confirmed \in BOOLEAN :
            /\ confirmed => HasFree(Manager)
            /\ Manages(CM_deleteCategory(Manager, container[i], confirmed))
    /\ UNCHANGED <<pageVars, serverVars>>

\* The request of a call reaches the server and its handler runs; the
\* response it sends is on its way in the call.
ServerHandles ==
    /\ \E k \in 1..MaxCalls :
            /\ calls[k].stage = "request"
            /\ Served(Service, calls[k]).nextCategoryId <= MaxNextId
            /\ LET t == Served(Service, calls[k])
               IN /\ Serves([t EXCEPT !.response = NoResponse])
                  /\ calls' = [calls EXCEPT ![k].stage = "response",
                                            ![k].result = Received(calls[k], t.response)]
    /\ UNCHANGED <<managerCategories, editingId, nameField, container, notification>>
    /\ UNCHANGED pageVars

\* The response of a call arrives and the function awaiting it resumes.
Resumes ==
    /\ \E k \in 1..MaxCalls :
            /\ calls[k].stage = "response"
            /\ Manages(Resumed(Manager, k, calls[k].result))
    /\ UNCHANGED <<pageVars, serverVars>>

\* The request of a call does not reach the server: fetch rejects.
FetchRejects ==
    /\ \E k \in 1..MaxCalls :
            /\ calls[k].stage = "request"
            /\ Manages(Resumed(Manager, k, Rejected))
    /\ UNCHANGED <<pageVars, serverVars>>

ManagerNext ==
    \/ Submit
    \/ Cancel
    \/ EditClick
    \/ DeleteClick
    \/ ServerHandles
    \/ Resumes
    \/ FetchRejects

ManagerSpec == ManagerInit /\ [][ManagerNext]_vars

\* ------------------------------------------------------------ properties
\* The object and the page after the step.
AppNext ==
    [surveyData |-> surveyData', currentQuestionIndex |-> currentQuestionIndex',
     answers |-> answers', fetchCalls |-> fetchCalls', listeners |-> listeners',
     errorShown |-> errorShown', screen |-> screen', rendered |-> rendered',
     selected |-> selected', textValue |-> textValue', prevDisabled |-> prevDisabled',
     nextDisabled |-> nextDisabled', nextLabel |-> nextLabel', summary |-> summary']

QuestionCount == Len(surveyData.questions)

\* The session is in progress on a question of the definition.
OnQuestion == Phase = "InProgress" /\ HasCurrent(App)

\* The AnswerSet holds an entry for id that is neither absent nor ''.
NonEmptyEntry(ans, id) == id \in DOMAIN ans /\ ans[id] # Str(<<>>) /\ ans[id] # Undefined

CurrentRequired == Current(App).required

CurrentAnswered == NonEmptyEntry(answers, Current(App).id)

AnswerStep == ClickOption \/ ClickRating \/ TypeText

\* C1: with a loaded definition of at least one question, every state in phase
\* InProgress has 0 <= currentIndex < number of questions.
C1_IndexInRange ==
    (Phase = "InProgress" /\ surveyData.hasQuestions /\ QuestionCount >= 1)
        => (0 <= currentQuestionIndex /\ currentQuestionIndex < QuestionCount)

\* Next has carried the session to the last of several questions.
C1_Witness ==
    /\ Phase = "InProgress"
    /\ QuestionCount >= 2
    /\ currentQuestionIndex = QuestionCount - 1
    /\ gesture = [control |-> "next-btn", fired |-> TRUE]

\* C2: a click on Next in phase InProgress on a required question without a
\* non-empty answer changes neither the phase nor the index nor the answers.
C2_GatedNextIsNoOp ==
    [][(ClickNext /\ OnQuestion /\ CurrentRequired /\ ~CurrentAnswered)
            => (Phase' = Phase /\ UNCHANGED <<currentQuestionIndex, answers>>)]_vars

\* Next was clicked on the first question, required and unanswered, and the
\* session is still there.
C2_Witness ==
    /\ OnQuestion
    /\ currentQuestionIndex = 0
    /\ CurrentRequired
    /\ ~CurrentAnswered
    /\ gesture = [control |-> "next-btn", fired |-> FALSE]

\* C3: once a non-empty answer is recorded for a required question that had
\* none, the click on Next that follows advances: the index grows by one, or
\* the phase becomes Results on the last question.
C3_NextAfterAnswerSucceeds ==
    [][(AnswerStep /\ OnQuestion /\ CurrentRequired /\ ~CurrentAnswered
            /\ NonEmptyEntry(answers', Current(App).id))
        => LET t == Click(AppNext, "next-btn")
           IN IF currentQuestionIndex = QuestionCount - 1
              THEN t.screen = "results"
              ELSE /\ t.screen = "survey"
                   /\ t.currentQuestionIndex = currentQuestionIndex + 1]_vars

\* An answer has just been recorded on a required question.
C3_Witness ==
    /\ OnQuestion
    /\ CurrentRequired
    /\ CurrentAnswered
    /\ gesture.control \in {"option", "rating", "text-input"}

\* C4: on every question in progress the Next button is enabled exactly when
\* the question is not required or has a non-empty answer.
C4_GateMatchesAnswer ==
    OnQuestion => (~nextDisabled <=> (~CurrentRequired \/ CurrentAnswered))

\* A required text question whose answer was typed and then erased.
C4_Witness ==
    /\ OnQuestion
    /\ CurrentRequired
    /\ Current(App).id \in DOMAIN answers
    /\ answers[Current(App).id] = Str(<<>>)
    /\ nextDisabled
    /\ gesture.control = "text-input"

\* C5: a click on Previous in phase InProgress lowers the index by exactly one
\* when it is above 0, answered or not, and changes nothing at index 0.
C5_PreviousStep ==
    [][(ClickPrevious /\ OnQuestion)
        => /\ Phase' = Phase
           /\ answers' = answers
           /\ currentQuestionIndex' =
                IF currentQuestionIndex > 0 THEN currentQuestionIndex - 1 ELSE 0]_vars

\* Previous has left a required question that has no answer.
C5_Witness ==
    /\ OnQuestion
    /\ gesture = [control |-> "prev-btn", fired |-> TRUE]
    /\ \E p \in DOMAIN surveyData.questions :
            /\ p = currentQuestionIndex + 2
            /\ surveyData.questions[p].required
            /\ ~NonEmptyEntry(answers, surveyData.questions[p].id)

C7_StartResets ==
    [][(ClickStart /\ Phase = "Welcome")
        => /\ Phase' = "InProgress"
           /\ currentQuestionIndex' = 0
           /\ answers' = EmptyAnswers]_vars

\* A second session has been started after one that recorded answers.
C7_Witness ==
    /\ Phase = "InProgress"
    /\ gesture = [control |-> "start-survey", fired |-> TRUE]
    /\ summary.items # <<>>
    /\ answers = EmptyAnswers

\* C8: a click on Restart in phase Results yields phase Welcome with no
\* answers and index 0, keeps the loaded definition without another fetch,
\* and the start that follows shows the first question of the same definition.
C8_RestartKeepsDefinition ==
    [][(ClickRestart /\ Phase = "Results")
        => /\ Phase' = "Welcome"
           /\ answers' = EmptyAnswers
           /\ currentQuestionIndex' = 0
           /\ surveyData' = surveyData
           /\ fetchCalls' = fetchCalls
           /\ LET t == Click(AppNext, "start-survey")
              IN /\ t.surveyData = surveyData
                 /\ t.screen = "survey"
                 /\ QuestionCount >= 1 => (t.rendered = 1 /\ t.currentQuestionIndex = 0)]_vars

\* Restart has ended a session whose summary lists answers.
C8_Witness ==
    /\ Phase = "Welcome"
    /\ gesture = [control |-> "restart-survey", fired |-> TRUE]
    /\ summary.items # <<>>

\* The input surface of question q, with the controls at positions sel
\* selected and the textarea holding text, shows exactly the value v.
Shows(q, v, sel, text) ==
    CASE q.type = "multiple-choice" ->
            /\ sel # {}
            /\ \A k \in sel : v.kind = "string" /\ q.options[k] = v.s
      [] q.type = "rating" -> v.kind = "number" /\ sel = {v.n}
      [] OTHER -> v.kind = "string" /\ text = v.s

\* C9: a Next or Previous step that arrives on a question holding a non-empty
\* answer v shows that question with exactly v restored.
C9_AnswerRestored ==
    [][((ClickNext \/ ClickPrevious) /\ Phase' = "InProgress"
            /\ currentQuestionIndex' # currentQuestionIndex
            /\ HasCurrent(AppNext)
            /\ NonEmptyEntry(answers', Current(AppNext).id))
        => Shows(Current(AppNext), answers'[Current(AppNext).id], selected', textValue')]_vars

\* C10: every key of the AnswerSet is the id of a question of the definition,
\* every rating answer is an integer in 1..scale and every multiple-choice
\* answer is one of the question's options.
C10_AnswersWellFormed ==
    \A id \in DOMAIN answers :
        \E p \in DOMAIN surveyData.questions :
            LET q == surveyData.questions[p]
                v == answers[id]
            IN /\ q.id = id
               /\ q.type = "rating" => (v.kind = "number" /\ v.n \in 1..q.scale)
               /\ q.type = "multiple-choice" =>
                    (v.kind = "string" /\ \E k \in DOMAIN q.options : q.options[k] = v.s)

\* The AnswerSet holds a rating and a multiple-choice answer.
C10_Witness ==
    /\ \E id \in DOMAIN answers : answers[id].kind = "number"
    /\ \E id \in DOMAIN answers : answers[id].kind = "string" /\ answers[id].s = QuotedOption

\* ------------------------------------------------------ the results summary
\* The positions of the questions whose answer is present and not ''.
Answered ==
    {p \in 1..QuestionCount : NonEmptyEntry(answers, surveyData.questions[p].id)}

\* The place in the summary of the answered question at position p.
Rank(p) == Cardinality({r \in Answered : r <= p})

\* C11: in Results the summary lists exactly the questions whose answer is
\* present and not the empty string, each once, in definition order.
C11_SummaryListsAnswered ==
    Phase = "Results"
        => /\ Len(summary.items) = Cardinality(Answered)
           /\ \A p \in Answered :
                summary.items[Rank(p)].question = surveyData.questions[p].title

C11_Witness ==
    /\ Phase = "Results"
    /\ Answered # {}
    /\ \E p \in 1..QuestionCount : Get(answers, surveyData.questions[p].id) = Str(<<>>)
    /\ \E p \in 1..QuestionCount : surveyData.questions[p].id \notin DOMAIN answers

\* C12: a rating answered v on a scale of s is listed as "v out of s", an
\* answer of another type as the recorded string; the rating of 4 on the
\* scale of 5 is listed under its title as "4 out of 5".
C12_SummaryLineText ==
    Phase = "Results"
        => /\ \A p \in Answered :
                LET q == surveyData.questions[p]
                    v == answers[q.id]
                    line == summary.items[Rank(p)]
                IN IF q.type = "rating"
                   THEN /\ v.kind = "number"
                        /\ line.answer = NumToStr(v.n) \o <<" out of ">> \o NumToStr(q.scale)
                   ELSE /\ v.kind = "string"
                        /\ line.answer = v.s
           /\ (surveyData = SampleDocument /\ Get(answers, SampleQuestions[2].id) = Num(4))
                => summary.items[Rank(2)] =
                       [question |-> <<"T", "2">>, answer |-> <<"4", " out of ", "5">>]

C12_Witness ==
    /\ Phase = "Results"
    /\ surveyData = SampleDocument
    /\ Get(answers, SampleQuestions[2].id) = Num(4)
    /\ Get(answers, SampleQuestions[3].id) = Str(<<"x">>)

\* C13: in Results the message 'No responses recorded.' is shown exactly when
\* no question has an answer that is present and not the empty string.
C13_NoResponsesMessage ==
    Phase = "Results" => (summary.noResponses <=> Answered = {})

C13_Witness ==
    /\ Phase = "Results"
    /\ summary.noResponses
    /\ \E id \in DOMAIN answers : answers[id] = Str(<<>>)

\* C14: with the sample survey, the run start, answer the first question
\* with B, Next, Next, Next is enabled at every step and ends in Results
\* with a summary of the single line (title of the first question, B).
C14_SampleRun ==
    (surveyData = SampleDocument /\ Phase = "Welcome")
        => LET s1 == Click(App, "start-survey")
               q1 == Current(s1)
               s2 == optionClick(s1, q1, 2)
               s3 == Click(s2, "next-btn")
               s4 == Click(s3, "next-btn")
               s5 == Click(s4, "next-btn")
           IN /\ Fires(App, "start-survey")
              /\ s1.screen = "survey" /\ s1.rendered # 0
              /\ q1 = SampleQuestions[1] /\ q1.options[2] = <<"B">>
              /\ Fires(s2, "next-btn") /\ s3.screen = "survey"
              /\ Fires(s3, "next-btn") /\ s4.screen = "survey"
              /\ Fires(s4, "next-btn") /\ s5.screen = "results"
              /\ s5.summary = [items |-> << [question |-> <<"T", "1">>, answer |-> <<"B">>] >>,
                               noResponses |-> FALSE]

C14_Witness ==
    /\ Phase = "Results"
    /\ surveyData = SampleDocument
    /\ gesture = [control |-> "next-btn", fired |-> TRUE]
    /\ answers = Put(EmptyAnswers, SampleQuestions[1].id, Str(<<"B">>))
    /\ summary.items = << [question |-> <<"T", "1">>, answer |-> <<"B">>] >>

\* C15: once the load has failed the error banner has been raised, the
\* session stays failed, the definition is never fetched again, no listener
\* is ever registered, and no click leaves the page as the load left it.
C15_LoadFailureIsFinal ==
    [][/\ (LoadSettles /\ fetchOutcome.kind # "ok") => (initPc' = "failed" /\ errorShown')
       /\ initPc = "failed" => initPc' = "failed"
       /\ initPc' = "failed"
            => /\ Phase' = "Error"
               /\ ~listeners' /\ fetchCalls' = 1 /\ surveyData' = NullData
               /\ screen' \notin {"survey", "results"}
               /\ currentQuestionIndex' = 0 /\ answers' = EmptyAnswers
               /\ ~Fires(AppNext, "start-survey")]_vars

C15_Witness ==
    /\ initPc = "failed"
    /\ fetchOutcome.kind = "bad-json"
    /\ ~errorShown
    /\ gesture = [control |-> "start-survey", fired |-> FALSE]

\* ------------------------------------------------- operations and phases
\* The record has the phase, the index and the answers of the session.
SameSession(t) ==
    /\ t.screen = screen
    /\ t.currentQuestionIndex = currentQuestionIndex
    /\ t.answers = answers

C27_EmptyNeverInProgress ==
    (surveyData.hasQuestions /\ QuestionCount = 0) => Phase # "InProgress"

\* C28: a fetched document without a questions array puts the session in
\* the error state once the load has settled.
C28_NoQuestionsRejected ==
    (initPc # "awaiting" /\ fetchOutcome.kind = "ok" /\ ~fetchOutcome.doc.hasQuestions)
        => Phase = "Error"

\* C29: an input event on the text question shown, with the textarea
\* holding v, stores v as the answer and sets the Next button in the same
\* step: on a required question it is disabled exactly when v is ''.
C29_TextInputGates ==
    (Phase = "InProgress" /\ rendered # 0 /\ RenderedQuestion.type = "text")
        => \A v \in TextInputs :
            LET q == RenderedQuestion
                t == textInput(App, q, v)
            IN /\ q = Current(App)
               /\ Get(t.answers, q.id) = Str(v)
               /\ t.textValue = v
               /\ t.nextDisabled <=> (q.required /\ v = <<>>)
               /\ t.currentQuestionIndex = currentQuestionIndex /\ t.screen = screen

\* The textarea of a required text question was filled and emptied again.
C29_Witness ==
    /\ OnQuestion
    /\ Current(App).type = "text" /\ CurrentRequired
    /\ gesture = [control |-> "text-input", fired |-> TRUE]
    /\ textValue = <<>>
    /\ Get(answers, Current(App).id) = Str(<<>>)
    /\ nextDisabled

\* The value of the control at position k of question q.
ControlValue(q, k) == IF q.type = "rating" THEN Num(k) ELSE Str(q.options[k])

\* C30: on a multiple-choice or rating question at most one control is
\* marked selected and the answer is its value; a click on a control
\* leaves that control alone selected and its value as the answer.
C30_SingleSelection ==
    (Phase = "InProgress" /\ rendered # 0
            /\ RenderedQuestion.type \in {"multiple-choice", "rating"})
        => LET q == RenderedQuestion
               n == IF q.type = "rating" THEN q.scale ELSE Len(q.options)
           IN /\ Cardinality(selected) <= 1
              /\ \A k \in selected : Get(answers, q.id) = ControlValue(q, k)
              /\ \A k \in 1..n :
                    LET t == IF q.type = "rating" THEN ratingClick(App, q, k)
                             ELSE optionClick(App, q, k)
                    IN /\ t.selected = {k}
                       /\ Get(t.answers, q.id) = ControlValue(q, k)

\* The second option was clicked on a question that had an answer restored.
C30_Witness ==
    /\ OnQuestion
    /\ Current(App).type = "multiple-choice"
    /\ gesture = [control |-> "option", fired |-> TRUE]
    /\ selected = {2}
    /\ Get(answers, Current(App).id) = Str(Current(App).options[2])
    /\ \E id \in DOMAIN answers : id # Current(App).id

\* ------------------------------------------------ answers and navigation
\* The records the answer inputs of the question shown lead to: a click on
\* each of its controls, or the textarea holding each value.
AnswerInputs ==
    LET q == RenderedQuestion
    IN CASE q.type = "multiple-choice" ->
                {optionClick(App, q, k) : k \in 1..Len(q.options)}
         [] q.type = "rating" -> {ratingClick(App, q, i) : i \in 1..q.scale}
         [] OTHER -> {textInput(App, q, v) : v \in TextInputs}

\* The AnswerSets a and b agree on every entry but that of id.
SameButFor(a, b, id) ==
    /\ DOMAIN a \ {id} = DOMAIN b \ {id}
    /\ \A other \in DOMAIN a \ {id} : a[other] = b[other]

\* C31: an answer input changes the entry of the question shown only, and
\* leaves the index and the phase alone; Next and Previous leave every
\* entry of the AnswerSet alone.
C31_AnswerInputIsLocal ==
    (Phase = "InProgress" /\ rendered # 0)
        => /\ RenderedQuestion = Current(App)
           /\ \A t \in AnswerInputs :
                /\ SameButFor(t.answers, answers, Current(App).id)
                /\ t.currentQuestionIndex = currentQuestionIndex
                /\ t.screen = screen
           /\ \A control \in {"prev-btn", "next-btn"} :
                Click(App, control).answers = answers

\* The first question was answered again after a return from the second,
\* whose answer is still held.
C31_Witness ==
    /\ OnQuestion
    /\ currentQuestionIndex = 0
    /\ gesture.control \in {"option", "rating", "text-input"}
    /\ \E id \in DOMAIN answers : id # Current(App).id /\ NonEmptyEntry(answers, id)

\* C32: in Results every required question of the definition has an entry
\* in the AnswerSet that is neither absent nor the empty string; on the
\* way there every required question before the current one has such an
\* entry, also after a return to a question whose text answer is cleared.
C32_RequiredAnsweredInResults ==
    /\ Phase = "Results"
            => \A p \in 1..QuestionCount :
                    surveyData.questions[p].required
                        => NonEmptyEntry(answers, surveyData.questions[p].id)
    /\ OnQuestion
            => \A p \in 1..currentQuestionIndex :
                    surveyData.questions[p].required
                        => NonEmptyEntry(answers, surveyData.questions[p].id)

\* The results follow a session of two required questions, the first a
\* text question.
C32_Witness ==
    /\ Phase = "Results"
    /\ QuestionCount = 2
    /\ \A p \in 1..QuestionCount : surveyData.questions[p].required
    /\ surveyData.questions[1].type = "text"
    /\ gesture = [control |-> "next-btn", fired |-> TRUE]

\* C33: before the fetch of the definition has succeeded no click reaches
\* a listener and nothing changes the object or the page; the survey and
\* results screens are shown only with the definition loaded.
C33_NothingBeforeLoad ==
    /\ initPc # "ready"
            => /\ ~listeners
               /\ screen = "welcome"
               /\ \A control \in {"start-survey", "prev-btn", "next-btn", "restart-survey"} :
                    Click(App, control) = App
    /\ listeners => ~surveyData.isNull
    /\ screen \in {"survey", "results"} => (~surveyData.isNull /\ initPc = "ready")

\* Start was clicked while the fetch was pending.
C33_Witness ==
    /\ initPc = "awaiting"
    /\ surveyData.isNull
    /\ gesture = [control |-> "start-survey", fired |-> FALSE]

\* --------------------------------------------- the Categories service
\* Two strings are the same up to the case of their letters.
SameIgnoringCase(a, b) ==
    /\ Len(a) = Len(b)
    /\ \A k \in 1..Len(a) : a[k] = b[k] \/ {a[k], b[k]} \in {{"O", "o"}, {"P", "p"}}

\* t is str without its leading and trailing blanks.
Trimmed(str, t) ==
    \E a \in 0..Len(str) : \E b \in a..Len(str) :
        /\ t = SubSeq(str, a + 1, b)
        /\ \A k \in (1..a) \cup ((b + 1)..Len(str)) : str[k] = " "
        /\ t # <<>> => (t[1] # " " /\ t[Len(t)] # " ")

TrimOf(str) ==
    CHOOSE t \in {SubSeq(str, a + 1, b) : a \in 0..Len(str), b \in 0..Len(str)} :
        Trimmed(str, t)

\* A name a request may create or rename a category with: a string with a
\* character that is not a blank.
ValidName(v) == v.kind = "string" /\ \E k \in 1..Len(v.s) : v.s[k] # " "

\* v is the name of a stored category, up to case.
NameOfStored(v) ==
    v.kind = "string"
        /\ \E i \in 1..Len(categories) : SameIgnoringCase(categories[i].name, v.s)

\* The request left the collection, the counter and the file alone.
Untouched(t) ==
    /\ t.categories = categories
    /\ t.nextCategoryId = nextCategoryId
    /\ t.file = file

\* C16: no two stored categories have names that are equal ignoring case.
C16_NamesUnique ==
    \A i, j \in 1..Len(categories) :
        i # j => ~SameIgnoringCase(categories[i].name, categories[j].name)

\* C17: a POST whose name equals the name of a stored category, ignoring
\* case, is refused with 400 and the duplicate-name error and leaves the
\* collection and nextCategoryId as they were.
C17_DuplicatePostRefused ==
    \A body \in Bodies :
        NameOfStored(body.name)
            => LET t == postCategory(Service, body)
               IN /\ t.response.status = 400
                  /\ t.response.error = "Category with this name already exists"
                  /\ t.response.data = <<>>
                  /\ Untouched(t)

C17_Witness ==
    /\ response.status = 400
    /\ response.error = "Category with this name already exists"
    /\ Len(categories) = 1
    /\ categories[1].name = <<"O">>
    /\ nextCategoryId = 2

\* C18: a POST whose name is missing, not a string, empty or made of blanks
\* is refused with 400 'Category name is required'; the collection,
\* nextCategoryId and the file are as they were.
C18_InvalidPostRefused ==
    \A body \in Bodies :
        ~ValidName(body.name)
            => LET t == postCategory(Service, body)
               IN /\ t.response.status = 400
                  /\ t.response.error = "Category name is required"
                  /\ t.response.data = <<>>
                  /\ Untouched(t)

C18_Witness ==
    /\ response.status = 400
    /\ response.error = "Category name is required"
    /\ Len(categories) = 1
    /\ nextCategoryId = 2
    /\ file.kind = "data"

\* C19: a POST with a valid name that no stored category has, once
\* trimmed and ignoring case, answers 201 with a record whose id is
\* nextCategoryId as it was, whose name is the trimmed input, whose
\* description is '' and whose color is #667eea unless provided; the
\* record is appended, nextCategoryId grows by one and the records that
\* were there are as they were.
C19_PostCreates ==
    \A body \in Bodies :
        (/\ ValidName(body.name)
         /\ \A i \in 1..Len(categories) :
                ~SameIgnoringCase(categories[i].name, TrimOf(body.name.s)))
            => LET t == postCategory(Service, body)
                   record == t.response.data[1]
               IN /\ t.response.status = 201
                  /\ Len(t.response.data) = 1
                  /\ record.id = nextCategoryId
                  /\ Trimmed(body.name.s, record.name)
                  /\ record.description = IF body.description = Undefined THEN Str(<<>>)
                                          ELSE body.description
                  /\ record.color = IF body.color = Undefined THEN Str(<<"#667eea">>)
                                    ELSE body.color
                  /\ t.categories = categories \o <<record>>
                  /\ t.nextCategoryId = nextCategoryId + 1

C19_Witness ==
    /\ response.status = 201
    /\ Len(categories) = 2
    /\ response.data = <<categories[2]>>
    /\ categories[2].id = 2 /\ nextCategoryId = 3
    /\ categories[2].description = Str(<<>>)
    /\ categories[2].color = Str(<<"#667eea">>)
    /\ categories[1].color # Str(<<"#667eea">>)

\* C20: a PUT that succeeds changes, in the category it names, only the
\* fields its body provides among name, description and color, and
\* updatedAt; the id and createdAt of the category, the fields not
\* provided, the other categories and nextCategoryId are as they were.
C20_PutChangesProvidedFields ==
    \A id \in PathIds : \A body \in Bodies :
        LET t == putCategory(Service, id, body)
        IN t.response.status = 200
            => /\ Len(t.categories) = Len(categories)
               /\ t.nextCategoryId = nextCategoryId
               /\ \A i \in 1..Len(categories) :
                    LET old == categories[i]
                        new == t.categories[i]
                    IN IF old.id # id THEN new = old
                       ELSE /\ new.id = old.id
                            /\ new.createdAt = old.createdAt
                            /\ body.name = Undefined => new.name = old.name
                            /\ body.description = Undefined
                                    => new.description = old.description
                            /\ body.color = Undefined => new.color = old.color
                            /\ body.name # Undefined => Trimmed(body.name.s, new.name)
                            /\ body.description # Undefined
                                    => new.description = body.description
                            /\ body.color # Undefined => new.color = body.color

C20_Witness ==
    /\ response.status = 200
    /\ response.message = "Category updated successfully"
    /\ Len(categories) = 2
    /\ response.data = <<categories[1]>>
    /\ categories[1].updatedAt > categories[1].createdAt
    /\ categories[1].description = Str(<<"d">>)
    /\ categories[1].color = Str(<<"#667eea">>)

\* Every body the members of a request can make up.
AnyBodies == [name : NameInputs, description : DescriptionInputs, color : ColorInputs]

StoredIds == {categories[i].id : i \in 1..Len(categories)}

\* C21: a PUT on a stored category whose provided name is not a string, is
\* made of blanks, or is the name of another category ignoring case, is
\* refused with 400 and changes no category, whatever description and
\* color it carries; the file is not written.
C21_InvalidPutRefused ==
    \A id \in StoredIds : \A body \in AnyBodies :
        (/\ body.name # Undefined
         /\ \/ ~ValidName(body.name)
            \/ \E i \in 1..Len(categories) :
                    /\ categories[i].id # id
                    /\ SameIgnoringCase(categories[i].name, body.name.s))
            => LET t == putCategory(Service, id, body)
               IN /\ t.response.status = 400
                  /\ t.response.data = <<>>
                  /\ Untouched(t)

C21_Witness ==
    /\ response.status = 400
    /\ response.error = "Category name must be a non-empty string"
    /\ Len(categories) = 2
    /\ file = [kind |-> "data", categories |-> categories, nextId |-> nextCategoryId]

\* C22: a GET or a PUT on an id that no stored category has answers 404
\* and leaves the collection, nextCategoryId and the file as they were;
\* the PUT answers 404 whatever its body.
C22_UnknownIdNotFound ==
    \A id \in PathIds \ StoredIds :
        /\ getCategory(Service, id).response.status = 404
        /\ Untouched(getCategory(Service, id))
        /\ \A body \in AnyBodies :
                /\ putCategory(Service, id, body).response.status = 404
                /\ Untouched(putCategory(Service, id, body))

C22_Witness ==
    /\ response.status = 404
    /\ response.error = "Category not found"
    /\ Len(categories) = 1
    /\ PathIds \ StoredIds # {}

\* C23: a DELETE on a stored id answers 200 with the record, removes that
\* record and no other, leaves nextCategoryId alone, and a GET of the id
\* then answers 404; a DELETE on another id answers 404 and leaves the
\* collection as it was.
C23_DeleteRemovesOne ==
    \A id \in PathIds :
        LET t == deleteCategory(Service, id)
        IN IF id \in StoredIds
           THEN \E i \in 1..Len(categories) :
                    /\ categories[i].id = id
                    /\ t.response.status = 200
                    /\ t.response.data = <<categories[i]>>
                    /\ Len(t.categories) = Len(categories) - 1
                    /\ \A j \in 1..(i - 1) : t.categories[j] = categories[j]
                    /\ \A j \in i..Len(t.categories) : t.categories[j] = categories[j + 1]
                    /\ t.nextCategoryId = nextCategoryId
                    /\ getCategory(t, id).response.status = 404
           ELSE /\ t.response.status = 404
                /\ Untouched(t)

C23_Witness ==
    /\ response.status = 200
    /\ response.message = "Category deleted successfully"
    /\ Len(categories) = 1
    /\ response.data[1].id = 1
    /\ categories[1].id = 2
    /\ nextCategoryId = 3

\* C24: restarting the service on the file yields the collection and the
\* nextCategoryId the service held before the restart.
C24_RestartKeepsState ==
    LET t == loadCategories(Fresh(file, diskOk, clock))
    IN t.categories = categories /\ t.nextCategoryId = nextCategoryId

\* C25: started on a file that is missing, unreadable or not JSON, the
\* service holds no category and nextCategoryId = 1, lists nothing and
\* creates its first category with id 1.
C25_StartsEmpty ==
    file.kind \in {"missing", "corrupt"}
        => LET t == loadCategories(Fresh(file, diskOk, clock))
               created == postCategory(t, [name |-> Str(<<"o">>), description |-> Undefined,
                                           color |-> Undefined])
           IN /\ t.categories = <<>>
              /\ t.nextCategoryId = 1
              /\ getCategories(t).response.status = 200
              /\ getCategories(t).response.data = <<>>
              /\ created.response.status = 201
              /\ created.response.data[1].id = 1

C25_Witness ==
    /\ file = CorruptFile
    /\ response.status = 201
    /\ Len(categories) = 1
    /\ categories[1].id = 1


\* ------------------------------------------------------ ids and the counter
\* The ids of the collection are pairwise distinct and below the counter.
IdsFresh(cats, nextId) ==
    /\ \A i, j \in 1..Len(cats) : cats[i].id = cats[j].id => i = j
    /\ \A i \in 1..Len(cats) : cats[i].id < nextId

\* C34: in every reachable state the ids are pairwise distinct and each is
\* below nextId, and no step, a restart included, lowers nextId, so that an
\* id once assigned is never assigned again.
C34_IdsNeverReused ==
    [][/\ IdsFresh(categories', nextCategoryId')
       /\ nextCategoryId' >= nextCategoryId]_vars


\* ------------------------------------------------- renaming to one's own name
\* The names of the requests that are the string str in some letter case.
CaseVariants(str) ==
    {n.s : n \in {m \in NameInputs : m.kind = "string" /\ SameIgnoringCase(m.s, str)}}

\* C35: a PUT that gives a category its own current name, in any letter
\* case, is answered 200 and stores that name.
C35_OwnNameAccepted ==
    \A i \in 1..Len(categories) : \A v \in CaseVariants(categories[i].name) :
        LET body == [name |-> Str(v), description |-> Undefined, color |-> Undefined]
            t == putCategory(Service, categories[i].id, body)
        IN /\ t.response.status = 200
           /\ t.categories[i].name = v


\* ----------------------------------------------------------- failed writes
\* The request answered by t is answered as by ok, the same request on a
\* disk that takes the write, with the same collection and counter in
\* memory, and the file is as it was.
SwallowsFailure(t, ok) ==
    /\ t.response = ok.response
    /\ t.categories = ok.categories
    /\ t.nextCategoryId = ok.nextCategoryId
    /\ t.file = file
    /\ getCategories(t).response.data = t.categories

C37_SameNamePostsOneCreated ==
    \A body \in Bodies :
        LET first == postCategory(Service, body)
            second == postCategory(first, body)
        IN first.response.status = 201
            => /\ second.response.status = 400
               /\ Len(second.categories) = Len(categories) + 1


\* ------------------------------------------------- the category form
\* The call a fetch of the method, id and name leaves in flight.
Request(method, id, name) ==
    [method |-> method, id |-> id, name |-> name, stage |-> "request",
     result |-> NoResponse]

\* t has the calls of the manager and one more, the call r.
SendsOnly(t, r) ==
    \E k \in 1..MaxCalls :
        /\ calls[k] = NoCall
        /\ t.calls = [calls EXCEPT ![k] = r]

\* C38: a submit whose trimmed name is empty sends no request, one with a
\* name sends PUT for editingId when editingId is set and POST otherwise;
\* editingId is set by editCategory only, is null after resetForm and after
\* a create or an update that succeeded, and is left as it was by every
\* other outcome of a call, a failed update included.
C38_SubmitAndEditingId ==
    /\ \A v \in FormNames :
            LET t == CM_handleSubmit([Manager EXCEPT !.nameField = v])
            IN /\ trim(v) = <<>> => (t.calls = calls /\ t.editingId = editingId)
               /\ (trim(v) # <<>> /\ HasFree(Manager))
                    => /\ t.editingId = editingId
                       /\ IF editingId # 0
                          THEN SendsOnly(t, Request("PUT", editingId, trim(v)))
                          ELSE SendsOnly(t, Request("POST", 0, trim(v)))
    /\ CM_resetForm(Manager).editingId = 0
    /\ \A i \in 1..Len(container) :
            /\ CM_editCategory(Manager, container[i]).editingId = container[i]
            /\ \A confirmed \in BOOLEAN :
                    (confirmed => HasFree(Manager))
                        => CM_deleteCategory(Manager, container[i], confirmed).editingId
                                = editingId
    /\ \A k \in 1..MaxCalls :
            /\ calls[k].stage = "request"
                    => Resumed(Manager, k, Rejected).editingId = editingId
            /\ calls[k].stage = "response"
                    => Resumed(Manager, k, calls[k].result).editingId =
                            IF calls[k].method \in {"POST", "PUT"} /\ Success(calls[k].result)
                            THEN 0 ELSE editingId

\* The update of a category to the name of another one was refused and the
\* form still edits the category.
C38_Witness ==
    /\ editingId # 0
    /\ notification = "error"
    /\ \A k \in 1..MaxCalls : calls[k] = NoCall
    /\ \E i, j \in 1..Len(managerCategories) :
            /\ managerCategories[i].id = editingId
            /\ managerCategories[j].id # editingId
            /\ managerCategories[j].name = nameField
    /\ categories = managerCategories


\* C39: whenever editingId is not null it is the id of a category of the
\* manager's list.
C39_EditingIdListed ==
    editingId # 0 => \E i \in 1..Len(managerCategories) : managerCategories[i].id = editingId


\* No call of the manager is in flight.
AllSettled == \A k \in 1..MaxCalls : calls[k] = NoCall

\* C40: once every call has settled after a create, an update or a delete
\* that succeeded, with no failure notified since, the manager's list is
\* the collection of the service.
C40_ListMatchesService ==
    (AllSettled /\ notification = "success") => managerCategories = categories

====
